---- MODULE Spec2Model ----
(***************************************************************************)
(* Model of the polygon colorer (src/src/utils/colorUtils.js): the         *)
(* process-wide colorCache, the content fingerprint, the neighbour search  *)
(* and the greedy palette assignment of calculatePolygonColors, and of     *)
(* applyPolygonColors, which writes the colors onto the features.          *)
(*                                                                         *)
(* Model of the feature store and of the spatial queries of                *)
(* src/src/services/MapService.js: the two id -> feature maps, the         *)
(* listeners that mirror the two vector sources, and the read-only         *)
(* queries over the maps.                                                  *)
(*                                                                         *)
(* calculatePolygonColors is synchronous; it is modelled as the entry step *)
(* (validity check, prune or clear), one step per iteration of its loop    *)
(* over the features, and the return. While pc = "coloring" no other       *)
(* operation is enabled, so the steps of one call never interleave with    *)
(* another call.                                                           *)
(***************************************************************************)
EXTENDS Integers, Sequences, FiniteSets, TLC

VARIABLES
    timestamp,      \* colorCache.timestamp (NoTimestamp models null)
    polygonColors,  \* colorCache.polygonColors : feature hash -> color
    fileHashes,     \* colorCache.fileHashes    : "file_<i>" -> fingerprint
    features,       \* argument `features` of the call in progress / last call
    geojsonFiles,   \* argument `geojsonFiles` of that call
    pc,             \* "idle" or "coloring" (inside calculatePolygonColors)
    idx,            \* position of the loop of lines 195-197 (1-based)
    valid,          \* what isCacheValid returned on entry of that call
    result,         \* content of the mapping returned by the last completed call
    repeat,         \* the call in progress / last call got the arguments of the call before it
    log,            \* one record per getPolygonColor invocation of that call
    randomKeys,     \* history: the keys of polygonColors whose color the random
                    \* fallback produced
    applying,       \* the call in progress / last call was made by applyPolygonColors
    raised,         \* that call ended in a TypeError instead of returning
    fillColor,      \* the 'fillColor' property of every polygon feature ("" = not set)
    defaulted       \* history: the features applyPolygonColors wrote the neutral
                    \* default to, in its call in progress / last call

colorerVars == <<timestamp, polygonColors, fileHashes, features, geojsonFiles,
                 pc, idx, valid, result, repeat, log, randomKeys>>

applyVars == <<applying, raised, fillColor, defaulted>>

VARIABLES
    geojsonSource,   \* the features the vector source of the polygons holds
    markersSource,   \* the features the vector source of the markers holds
    geojsonFeatures, \* MapService.geojsonFeatures: the entries <<id, feature>> of
                     \* the Map, in insertion order
    markerFeatures,  \* MapService.markerFeatures, likewise
    featureId,       \* what getId() returns for every feature ("" = undefined)
    listening,       \* addFeatureListeners has attached the listeners
    lastEvent,       \* history: the last notification a listener handled
    lastQuery        \* history: the last query and what it gave, since the last
                     \* change of the store

storeVars == <<geojsonSource, markersSource, geojsonFeatures, markerFeatures,
               featureId, listening, lastEvent, lastQuery>>

VARIABLES
    prevFiles,       \* history: the geojsonFiles of the call before the call in
                     \* progress / last call
    rebuilt          \* history: for a feature list, the mapping that the first
                     \* rebuild of that list without a random color returned

historyVars == <<prevFiles, rebuilt>>

VARIABLES
    mounted,         \* Map.jsx: how many times the Map component was mounted
    geojsonLoad,     \* per mount, where its loadGeoJSONData is: "fetching" (at
                     \* the await of line 84), "running", "done" or "failed"
    csvLoad,         \* per mount, where its loadCSVData is, likewise
    oldSources,      \* the two vector sources of every mount before the last
    running          \* the mount whose loadGeoJSONData is past its await and has
                     \* not ended (0 = none)

mapVars == <<mounted, geojsonLoad, csvLoad, oldSources, running>>

vars == <<colorerVars, applyVars, storeVars, historyVars, mapVars>>

-----------------------------------------------------------------------------
(* Bounds of the model *)

MaxFeatures == 2    \* longest features argument drawn freely from SmallFeatures
MaxClock == 2       \* largest reading of Date.now()
MaxStrLen == 5      \* longest file content of the fingerprint specification

-----------------------------------------------------------------------------
(* Generic helpers *)

\* colorCache.timestamp before the first rebuild: null, which is falsy like 0
NoTimestamp == 0

Min(S) == CHOOSE m \in S : \A n \in S : m <= n
Max(S) == CHOOSE m \in S : \A n \in S : m >= n

RECURSIVE SeqsUpTo(_, _)
\* all sequences over S of length <= n
SeqsUpTo(S, n) ==
    IF n = 0 THEN {<<>>}
    ELSE LET shorter == SeqsUpTo(S, n - 1)
         IN  shorter \cup {Append(s, e) : s \in shorter, e \in S}

NoRepeat(s) == \A i, j \in 1..Len(s) : i # j => s[i] # s[j]

\* a JS Map as a function; the empty Map
EmptyMap == [k \in {} |-> ""]
MapSet(m, k, v) == [x \in (DOMAIN m) \cup {k} |-> IF x = k THEN v ELSE m[x]]
MapRestrict(m, keys) == [x \in (DOMAIN m) \cap keys |-> m[x]]

-----------------------------------------------------------------------------
(* Features and their geometry.  A feature is an object (identity = its    *)
(* name in FeatureIds); its geometry is a Polygon given by its rings with  *)
(* integer coordinates, as handed over by the ingestion code.              *)

Rect(x1, y1, x2, y2) ==
    << <<x1, y1>>, <<x1, y2>>, <<x2, y2>>, <<x2, y1>>, <<x1, y1>> >>

\* an L: the left column and the bottom row of the box [0,4]x[0,4]
LRing == << <<0, 0>>, <<0, 4>>, <<1, 4>>, <<1, 1>>, <<4, 1>>, <<4, 0>>, <<0, 0>> >>

\* the predefined palette of generateDistinctColor, in its order
colorPalette ==
    << "rgba(31, 119, 180, 0.7)", "rgba(255, 127, 14, 0.7)", "rgba(44, 160, 44, 0.7)",
       "rgba(214, 39, 40, 0.7)", "rgba(148, 103, 189, 0.7)", "rgba(140, 86, 75, 0.7)",
       "rgba(227, 119, 194, 0.7)", "rgba(127, 127, 127, 0.7)", "rgba(188, 189, 34, 0.7)",
       "rgba(23, 190, 207, 0.7)" >>

\* one rectangle more than the palette has colors, so that the palette can run out
ClusterSize == Len(colorPalette) + 1
ClusterFeature(k) == 3 + k

\* 1: the L, no id          2: a rectangle in the notch of the L, id "zoneN"
\* 3: a second feature with the coordinates of the L, id "twin"
\* ClusterFeature(k): the rectangle [0,k]x[0,1], k = 1..ClusterSize; they all
\* share the corner (0,0)
ClusterFeatures == {ClusterFeature(k) : k \in 1..ClusterSize}
SmallFeatures == {1, 2, 3, ClusterFeature(1)}
FeatureIds == {1, 2, 3} \cup ClusterFeatures

FeatureTable ==
    [f \in FeatureIds |->
        CASE f = 1 -> [id |-> "", type |-> "Polygon", coordinates |-> <<LRing>>]
          [] f = 2 -> [id |-> "zoneN", type |-> "Polygon", coordinates |-> <<Rect(2, 2, 4, 4)>>]
          [] f = 3 -> [id |-> "twin", type |-> "Polygon", coordinates |-> <<LRing>>]
          [] OTHER -> [id |-> "", type |-> "Polygon",
                       coordinates |-> <<Rect(0, 0, f - 3, 1)>>]]

\* a feature without geometry, as GeoJSON's "geometry": null gives: its
\* getGeometry() returns null
NullGeometryFeature == 0

HasGeometry(f) == f # NullGeometryFeature

\* every polygon feature object of the model
PolygonFeatures == FeatureIds \cup {NullGeometryFeature}

\* the point features (markers).  21 lies inside the rectangle of feature 2,
\* the others outside every polygon; 22 and 23 are two markers at the same
\* coordinates; 22 and 24 are equally far from 21.  Only 24 comes with an id.
MarkerIds == {21, 22, 23, 24}

MarkerTable ==
    [m \in MarkerIds |->
        CASE m = 21 -> [id |-> "", type |-> "Point", coordinates |-> <<3, 3>>]
          [] m = 22 -> [id |-> "", type |-> "Point", coordinates |-> <<5, 3>>]
          [] m = 23 -> [id |-> "", type |-> "Point", coordinates |-> <<5, 3>>]
          [] OTHER  -> [id |-> "base", type |-> "Point", coordinates |-> <<3, 5>>]]

\* the polygon features that are put into the vector source
StorePolygons == {1, 2}

GridX == 0..ClusterSize
GridY == 0..4
Grid == GridX \X GridY

\* every vertex of a geometry, in ring order
RECURSIVE FlatPoints(_)
FlatPoints(rings) ==
    IF rings = <<>> THEN <<>> ELSE Head(rings) \o FlatPoints(Tail(rings))

\* geometry.getExtent(): the bounding box <<minX, minY, maxX, maxY>>
GetExtent(f) ==
    LET pts == FlatPoints(FeatureTable[f].coordinates)
        xs == {pts[i][1] : i \in 1..Len(pts)}
        ys == {pts[i][2] : i \in 1..Len(pts)}
    IN  <<Min(xs), Min(ys), Max(xs), Max(ys)>>

Cross(a, b, p) == (b[1] - a[1]) * (p[2] - a[2]) - (b[2] - a[2]) * (p[1] - a[1])

OnSegment(p, a, b) ==
    /\ Cross(a, b, p) = 0
    /\ Min({a[1], b[1]}) <= p[1] /\ p[1] <= Max({a[1], b[1]})
    /\ Min({a[2], b[2]}) <= p[2] /\ p[2] <= Max({a[2], b[2]})

\* the edge a-b crosses the horizontal ray from p towards +x
CrossesRay(p, a, b) ==
    /\ (a[2] > p[2]) # (b[2] > p[2])
    /\ IF b[2] > a[2] THEN Cross(a, b, p) > 0 ELSE Cross(a, b, p) < 0

\* p lies in the closed area of the polygon (even-odd rule over all rings)
InPolygon(p, rings) ==
    LET edges == UNION {{<<r, i>> : i \in 1..(Len(rings[r]) - 1)} : r \in 1..Len(rings)}
    IN  \/ \E e \in edges : OnSegment(p, rings[e[1]][e[2]], rings[e[1]][e[2] + 1])
        \/ Cardinality({e \in edges :
                CrossesRay(p, rings[e[1]][e[2]], rings[e[1]][e[2] + 1])}) % 2 = 1

\* the lattice points covered by each geometry.  The polygons of FeatureTable
\* are rectilinear with integer vertices, so a geometry meets an extent with
\* integer corners exactly when they share a lattice point.
Region == [f \in FeatureIds |-> {p \in Grid : InPolygon(p, FeatureTable[f].coordinates)}]

InExtent(p, ext) ==
    ext[1] <= p[1] /\ p[1] <= ext[3] /\ ext[2] <= p[2] /\ p[2] <= ext[4]

\* geometry.intersectsExtent(extent) of ol/geom/Polygon
IntersectsExtent(f, ext) == \E p \in Region[f] : InExtent(p, ext)

\* for every feature f, the features g with
\* f.getGeometry().intersectsExtent(g.getGeometry().getExtent())
IntersectsExtentOf ==
    [f \in FeatureIds |-> {g \in FeatureIds : IntersectsExtent(f, GetExtent(g))}]

-----------------------------------------------------------------------------
(* Strings built by the code *)

RECURSIVE Join(_)
\* Array.prototype.join(',') of a list of numbers
Join(nums) ==
    IF nums = <<>> THEN ""
    ELSE IF Len(nums) = 1 THEN ToString(nums[1])
    ELSE ToString(nums[1]) \o "," \o Join(Tail(nums))

RECURSIVE FlatNumbers(_)
\* coordinates.flat(Infinity) of a list of points
FlatNumbers(pts) ==
    IF pts = <<>> THEN <<>> ELSE Head(pts) \o FlatNumbers(Tail(pts))

FeatureHashTable ==
    [f \in FeatureIds |-> Join(FlatNumbers(FlatPoints(FeatureTable[f].coordinates)))]

\* MapService.generateFeatureId(feature): `${type}_${coordinates}`
generateFeatureId(f) ==
    IF f \in MarkerIds
    THEN MarkerTable[f].type \o "_" \o Join(MarkerTable[f].coordinates)
    ELSE FeatureTable[f].type \o "_" \o FeatureHashTable[f]

\* the id under which the Feature Store indexes a feature:
\* feature.getId() || this.generateFeatureId(feature)
FeatureStoreId(f) ==
    IF FeatureTable[f].id # "" THEN FeatureTable[f].id ELSE generateFeatureId(f)

\* generateFeatureHash deriving the key the way the Feature Store derives ids
generateFeatureHash_AsStoreId(f) == FeatureStoreId(f)

\* generateFeatureHash(feature)
generateFeatureHash(f) == FeatureHashTable[f]

-----------------------------------------------------------------------------
(* File contents and their fingerprint.  A content is the list of its UTF-16
   code units.  TLC's integers are 32 bits wide, so the running hash is kept
   as two 16-bit halves <<high, low>> of its 32-bit two's complement pattern. *)

Half == 65536

\* one round of lines 34-36: hash = ((hash << 5) - hash) + char, then
\* hash & hash, which wraps the sum to 32 bits
HashRound(h, char) ==
    LET low == 31 * h[2] + char
        high == 31 * h[1] + (low \div Half)
    IN  <<high % Half, low % Half>>

RECURSIVE HashLoop(_, _, _)
\* the loop of lines 33-37 from position i (1-based) on
HashLoop(content, i, h) ==
    IF i > Len(content) THEN h
    ELSE HashLoop(content, i + 1, HashRound(h, content[i]))

\* the signed 32-bit value of a bit pattern
ToInt32(h) == IF h[1] >= Half \div 2 THEN (h[1] - Half) * Half + h[2] ELSE h[1] * Half + h[2]

\* generateContentHash with the loop of line 33 started at index 1, so that
\* the first code unit is never read
generateContentHash_SkipFirst(content) == ToString(ToInt32(HashLoop(content, 2, <<0, 0>>)))

\* generateContentHash(content): hash.toString()
generateContentHash(content) == ToString(ToInt32(HashLoop(content, 1, <<0, 0>>)))

FileName(i) == "file_" \o ToString(i)

\* isCacheValid with the count read from a property a Map does not have
\* (fileHashes.length is undefined), so that the count check always fails
isCacheValid_NeverValid(files) == FALSE

\* isCacheValid without the comparison of the counts of line 50
isCacheValid_NoCount(files) ==
    IF timestamp = NoTimestamp THEN FALSE
    ELSE \A i \in 0..(Len(files) - 1) :
            /\ FileName(i) \in DOMAIN fileHashes
            /\ fileHashes[FileName(i)] = generateContentHash(files[i + 1])

\* isCacheValid(geojsonFiles), lines 46-64 (file indices are 0-based)
isCacheValid(files) ==
    IF timestamp = NoTimestamp THEN FALSE
    ELSE IF Len(files) # Cardinality(DOMAIN fileHashes) THEN FALSE
    ELSE \A i \in 0..(Len(files) - 1) :
            /\ FileName(i) \in DOMAIN fileHashes
            /\ fileHashes[FileName(i)] = generateContentHash(files[i + 1])

\* updateCache without the clear() of line 72: the fingerprints already
\* stored stay unless a file of the new list replaces them
NewFileHashes_NoClear(files) ==
    [k \in {FileName(i) : i \in 0..(Len(files) - 1)} \cup DOMAIN fileHashes |->
        IF k \in {FileName(i) : i \in 0..(Len(files) - 1)}
        THEN generateContentHash(files[(CHOOSE i \in 0..(Len(files) - 1) : FileName(i) = k) + 1])
        ELSE fileHashes[k]]

\* the fileHashes that updateCache(geojsonFiles) leaves, lines 72-79
NewFileHashes(files) ==
    [k \in {FileName(i) : i \in 0..(Len(files) - 1)} |->
        generateContentHash(files[(CHOOSE i \in 0..(Len(files) - 1) : FileName(i) = k) + 1])]

-----------------------------------------------------------------------------
(* The colorer *)

\* findNeighbors with a loop that stops before the last feature of the list
findNeighbors_SkipLast(f, all) ==
    {all[j] : j \in {k \in 1..(Len(all) - 1) :
                        /\ all[k] # f
                        /\ all[k] \in IntersectsExtentOf[f]}}

\* findNeighbors with the two geometries of line 130 swapped: the geometry of
\* the other feature against the extent of `feature`
findNeighbors_Swapped(f, all) ==
    {all[j] : j \in {k \in 1..Len(all) :
                        /\ all[k] # f
                        /\ f \in IntersectsExtentOf[all[k]]}}

\* findNeighbors(feature, allFeatures), lines 120-136: the other objects of
\* the list whose extent the geometry of `feature` intersects
findNeighbors(f, all) ==
    {all[j] : j \in {k \in 1..Len(all) :
                        /\ all[k] # f
                        /\ all[k] \in IntersectsExtentOf[f]}}

\* lines 100-103 reading the color of the first neighbour only
NeighborColors_FirstOnly(neighbors) ==
    LET colored == {m \in neighbors : generateFeatureHash(m) \in DOMAIN polygonColors}
    IN  IF colored = {} THEN {} ELSE {polygonColors[generateFeatureHash(Min(colored))]}

\* lines 100-103: the cached colors of the neighbours
NeighborColors(neighbors) ==
    {polygonColors[generateFeatureHash(n)] :
        n \in {m \in neighbors : generateFeatureHash(m) \in DOMAIN polygonColors}}

\* the outcomes of Math.floor(Math.random() * 256) for r, g, b that the model
\* draws: one that renders a palette color and two that do not
RandomRGB == {<<31, 119, 180>>, <<0, 0, 0>>, <<255, 255, 255>>}

\* the template string of line 169
Rgba(rgb) ==
    "rgba(" \o ToString(rgb[1]) \o ", " \o ToString(rgb[2]) \o ", "
            \o ToString(rgb[3]) \o ", 0.7)"

PaletteExhausted(existingColors) ==
    \A i \in 1..Len(colorPalette) : colorPalette[i] \in existingColors

\* generateDistinctColor walking the palette from its end
generateDistinctColor_Reversed(existingColors, rgb) ==
    IF PaletteExhausted(existingColors) THEN Rgba(rgb)
    ELSE colorPalette[Max({i \in 1..Len(colorPalette) : colorPalette[i] \notin existingColors})]

\* generateDistinctColor without the palette loop of lines 159-163: every
\* color is drawn at random
generateDistinctColor_AllRandom(existingColors, rgb) == Rgba(rgb)

\* generateDistinctColor(existingColors), lines 143-170; rgb is what the three
\* Math.random() calls give
generateDistinctColor(existingColors, rgb) ==
    IF PaletteExhausted(existingColors) THEN Rgba(rgb)
    ELSE colorPalette[Min({i \in 1..Len(colorPalette) : colorPalette[i] \notin existingColors})]

\* the color that getPolygonColor(feature, allFeatures) returns: the cached
\* one (lines 92-94) or the one generated from the neighbours (lines 97-106)
ColorFor(f, all, rgb) ==
    IF generateFeatureHash(f) \in DOMAIN polygonColors
    THEN polygonColors[generateFeatureHash(f)]
    ELSE generateDistinctColor(NeighborColors(findNeighbors(f, all)), rgb)

\* getPolygonColor that leaves a color of the random fallback out of the cache
getPolygonColor_RandomNotCached(f, all, rgb) ==
    IF \/ generateFeatureHash(f) \in DOMAIN polygonColors
       \/ PaletteExhausted(NeighborColors(findNeighbors(f, all)))
    THEN polygonColors
    ELSE MapSet(polygonColors, generateFeatureHash(f), ColorFor(f, all, rgb))

\* getPolygonColor(feature, allFeatures), lines 88-112: the cache it leaves
\* (line 109 stores every generated color)
getPolygonColor(f, all, rgb) ==
    IF generateFeatureHash(f) \in DOMAIN polygonColors THEN polygonColors
    ELSE MapSet(polygonColors, generateFeatureHash(f), ColorFor(f, all, rgb))

\* what one getPolygonColor invocation saw and returned
LogEntry(f, all, rgb) ==
    LET cached == generateFeatureHash(f) \in DOMAIN polygonColors
        nbrs == IF cached THEN {} ELSE findNeighbors(f, all)
    IN  [feature |-> f,
         kind |-> IF cached THEN "cached"
                  ELSE IF PaletteExhausted(NeighborColors(nbrs)) THEN "random"
                  ELSE "palette",
         neighbors |-> nbrs,
         colored |-> {n \in nbrs : generateFeatureHash(n) \in DOMAIN polygonColors},
         cachedThen |-> DOMAIN polygonColors,
         color |-> ColorFor(f, all, rgb)]

\* getPolygonColor(feature, allFeatures) ends in a TypeError: line 21 reads
\* getCoordinates of a null geometry, or, for a feature without cached color,
\* line 130 reads getExtent of the null geometry of another feature
GetPolygonColorRaises(f, all) ==
    IF ~HasGeometry(f) THEN TRUE
    ELSE /\ generateFeatureHash(f) \notin DOMAIN polygonColors
         /\ \E k \in 1..Len(all) : all[k] # f /\ ~HasGeometry(all[k])

\* the neutral default of line 212
NeutralFill == "rgba(100, 150, 200, 0.5)"

\* line 212 looking the color up under the identifier of the feature store
FillColorFor_ByStoreId(f, colorMap) ==
    IF FeatureStoreId(f) \in DOMAIN colorMap /\ colorMap[FeatureStoreId(f)] # ""
    THEN colorMap[FeatureStoreId(f)]
    ELSE NeutralFill

\* lines 211-212: colorMap.get(hash) || 'rgba(100, 150, 200, 0.5)'
FillColorFor(f, colorMap) ==
    IF generateFeatureHash(f) \in DOMAIN colorMap /\ colorMap[generateFeatureHash(f)] # ""
    THEN colorMap[generateFeatureHash(f)]
    ELSE NeutralFill

\* lines 180-192 with the test of line 184 inverted: on a hit the entries of
\* the features that are still present are the ones deleted
PruneOrClear_Inverted(fs, isValid) ==
    IF isValid
    THEN MapRestrict(polygonColors,
            (DOMAIN polygonColors) \ {generateFeatureHash(fs[i]) : i \in 1..Len(fs)})
    ELSE EmptyMap

\* lines 180-192 without the loop of lines 183-187: on a hit every entry
\* stays, whether or not its feature is still present
PruneOrClear_NoPrune(fs, isValid) ==
    IF isValid THEN polygonColors ELSE EmptyMap

\* the colorCache.polygonColors that lines 180-192 leave
PruneOrClear(fs, isValid) ==
    IF isValid
    THEN MapRestrict(polygonColors, {generateFeatureHash(fs[i]) : i \in 1..Len(fs)})
    ELSE EmptyMap

-----------------------------------------------------------------------------
(* Actions *)

\* updateCache(geojsonFiles), lines 70-80
updateCache(files) ==
    /\ \E now \in 1..MaxClock : now >= timestamp /\ timestamp' = now
    /\ fileHashes' = NewFileHashes(files)

\* lines 180-192 with updateCache called on a hit as well
ValidateOrUpdate_Always(files, isValid) == updateCache(files)

\* what lines 180-192 do to the timestamp and the fingerprints: nothing on a
\* hit, updateCache on a rebuild (line 191)
ValidateOrUpdate(files, isValid) ==
    IF isValid THEN UNCHANGED <<timestamp, fileHashes>> ELSE updateCache(files)

\* calculatePolygonColors(fs, files) is entered: lines 178-192.  updateCache
\* stores the reading of Date.now(); the clock never runs backwards.  On a
\* hit, line 182 hashes every feature before anything is deleted, and ends
\* the call in a TypeError when one of them has no geometry.
Enter(fs, files) ==
    /\ pc = "idle"
    /\ LET isValid == isCacheValid(files)
           raises == isValid /\ \E i \in 1..Len(fs) : ~HasGeometry(fs[i])
       IN  /\ valid' = isValid
           /\ raised' = raises
           /\ pc' = IF raises THEN "idle" ELSE "coloring"
           /\ polygonColors' = IF raises THEN polygonColors ELSE PruneOrClear(fs, isValid)
           /\ ValidateOrUpdate(files, isValid)
    /\ features' = fs
    /\ geojsonFiles' = files
    /\ repeat' = (timestamp # NoTimestamp /\ fs = features /\ files = geojsonFiles)
    /\ idx' = 1
    /\ log' = <<>>
    /\ randomKeys' = randomKeys \cap DOMAIN polygonColors'
    /\ defaulted' = {}
    /\ UNCHANGED <<result, fillColor>>
    /\ UNCHANGED storeVars

\* one iteration of the loop of lines 195-197
ColorStep ==
    /\ pc = "coloring"
    /\ idx <= Len(features)
    /\ ~GetPolygonColorRaises(features[idx], features)
    /\ \E rgb \in RandomRGB :
          LET entry == LogEntry(features[idx], features, rgb)
          IN  /\ polygonColors' = getPolygonColor(features[idx], features, rgb)
              /\ log' = Append(log, entry)
              /\ randomKeys' = IF entry.kind = "random"
                               THEN randomKeys \cup {generateFeatureHash(features[idx])}
                               ELSE randomKeys
    /\ idx' = idx + 1
    /\ UNCHANGED <<timestamp, fileHashes, features, geojsonFiles, pc, valid, result, repeat>>
    /\ UNCHANGED <<applyVars, storeVars, historyVars, mapVars>>

\* the iteration of the loop of lines 195-197 ends the call in a TypeError,
\* which propagates to the caller of calculatePolygonColors or
\* applyPolygonColors; the colors stored so far stay in the cache
ColorRaise ==
    /\ pc = "coloring"
    /\ idx <= Len(features)
    /\ GetPolygonColorRaises(features[idx], features)
    /\ raised' = TRUE
    /\ pc' = "idle"
    /\ UNCHANGED <<timestamp, polygonColors, fileHashes, features, geojsonFiles,
                   idx, valid, result, repeat, log, randomKeys>>
    /\ UNCHANGED <<applying, fillColor, defaulted, storeVars, historyVars, mapVars>>

\* line 199: the mapping is returned to a caller other than applyPolygonColors
Return ==
    /\ pc = "coloring"
    /\ idx > Len(features)
    /\ ~applying
    /\ result' = polygonColors
    /\ pc' = "idle"
    /\ UNCHANGED <<timestamp, polygonColors, fileHashes, features, geojsonFiles,
                   idx, valid, repeat, log, randomKeys>>
    /\ UNCHANGED <<applyVars, storeVars, historyVars, mapVars>>

\* line 208: the mapping is returned to applyPolygonColors as colorMap (the
\* live colorCache.polygonColors), and the loop of line 210 starts
ReturnToApply ==
    /\ pc = "coloring"
    /\ idx > Len(features)
    /\ applying
    /\ result' = polygonColors
    /\ pc' = "applying"
    /\ idx' = 1
    /\ UNCHANGED <<timestamp, polygonColors, fileHashes, features, geojsonFiles,
                   valid, repeat, log, randomKeys>>
    /\ UNCHANGED <<applyVars, storeVars, historyVars, mapVars>>

\* one iteration of the loop of lines 210-216
ApplyStep ==
    /\ pc = "applying"
    /\ idx <= Len(features)
    /\ LET color == FillColorFor(features[idx], polygonColors)
       IN  /\ fillColor' = [fillColor EXCEPT ![features[idx]] = color]
           /\ defaulted' = IF color = NeutralFill
                           THEN defaulted \cup {features[idx]}
                           ELSE defaulted
    /\ idx' = idx + 1
    /\ UNCHANGED <<timestamp, polygonColors, fileHashes, features, geojsonFiles,
                   pc, valid, result, repeat, log, randomKeys>>
    /\ UNCHANGED <<applying, raised, storeVars, historyVars, mapVars>>

\* line 217: applyPolygonColors returns
ApplyReturn ==
    /\ pc = "applying"
    /\ idx > Len(features)
    /\ pc' = "idle"
    /\ UNCHANGED <<timestamp, polygonColors, fileHashes, features, geojsonFiles,
                   idx, valid, result, repeat, log, randomKeys>>
    /\ UNCHANGED <<applyVars, storeVars, historyVars, mapVars>>

-----------------------------------------------------------------------------
(* The feature store of MapService.  A JS Map is the sequence of its entries
   <<key, value>> in insertion order. *)

MapKeys(m) == {m[i][1] : i \in 1..Len(m)}

\* Map.prototype.set: a present key keeps its position and gets the value
MapPut(m, k, v) ==
    IF k \in MapKeys(m)
    THEN [i \in 1..Len(m) |-> IF m[i][1] = k THEN <<k, v>> ELSE m[i]]
    ELSE Append(m, <<k, v>>)

\* Map.prototype.delete
MapDelete(m, k) == SelectSeq(m, LAMBDA e : e[1] # k)

\* Array.from(map.values())
MapValues(m) == [i \in 1..Len(m) |-> m[i][2]]

\* what a query gives when it gives no feature: null, and the undefined of
\* Map.prototype.get for an absent key
Null == 0 - 1
Undefined == 0 - 2

\* Map.prototype.get
MapGet(m, k) ==
    IF k \in MapKeys(m) THEN m[CHOOSE i \in 1..Len(m) : m[i][1] = k][2] ELSE Undefined

\* the id of lines 48, 57, 83 and 100: feature.getId() || this.generateFeatureId(feature)
IdFor(f) == IF featureId[f] # "" THEN featureId[f] ELSE generateFeatureId(f)

RECURSIVE IndexLoop(_, _, _)
\* the forEach of lines 47-51 and 56-60 over the features in the order
\* getFeatures() gave them: ids is featureId as the setId calls leave it
IndexLoop(order, m, ids) ==
    IF order = <<>> THEN [map |-> m, ids |-> ids]
    ELSE LET f == Head(order)
             id == IF ids[f] # "" THEN ids[f] ELSE generateFeatureId(f)
         IN  IndexLoop(Tail(order), MapPut(m, id, f), [ids EXCEPT ![f] = id])

RECURSIVE Orders(_)
\* the listings of a set of features in every order
Orders(S) ==
    IF S = {} THEN {<<>>}
    ELSE UNION {{<<f>> \o rest : rest \in Orders(S \ {f})} : f \in S}

\* the 'removefeature' listeners, lines 88-94 and 105-111; id is what
\* getId() of the feature of the event returns
OnRemoveFeature(m, id, f) == IF id # "" THEN MapDelete(m, id) ELSE m

\* getGeoJSONFeatureById / getMarkerFeatureById without the `|| null`
GetById_NoNull(m, id) == MapGet(m, id)

\* lines 137 and 146: map.get(id) || null
GetById(m, id) == IF MapGet(m, id) = Undefined THEN Null ELSE MapGet(m, id)

getGeoJSONFeatureById(id) == GetById(geojsonFeatures, id)
getMarkerFeatureById(id) == GetById(markerFeatures, id)

NoEvent == [type |-> "none", feature |-> Null, id |-> "", known |-> FALSE]
NoQuery == [op |-> "none", arg |-> Null, other |-> Null, radius |-> 0, id |-> "",
            kind |-> "none", items |-> <<>>, live |-> FALSE]

\* the vector source accepts a feature it does not hold, unless the feature
\* has an id under which the source already holds another one
Accepts(source, f) ==
    /\ f \notin source
    /\ featureId[f] # "" => \A g \in source : featureId[g] # featureId[f]

\* MapService.initialize: indexFeatures (lines 44-62) and addFeatureListeners
\* (lines 79-113).  Listeners attached by an earlier initialize stay attached
\* and repeat the same set or delete.
Initialize ==
    /\ pc = "idle"
    /\ \E go \in Orders(geojsonSource), mo \in Orders(markersSource) :
          LET g == IndexLoop(go, <<>>, featureId)
              m == IndexLoop(mo, <<>>, g.ids)
          IN  /\ geojsonFeatures' = g.map
              /\ markerFeatures' = m.map
              /\ featureId' = m.ids
    /\ listening' = TRUE
    /\ lastEvent' = NoEvent
    /\ lastQuery' = NoQuery
    /\ UNCHANGED <<geojsonSource, markersSource, colorerVars, applyVars, historyVars, mapVars>>

\* geojsonSource.addFeature(f), and the 'addfeature' listener of lines 81-86
AddPolygon(f) ==
    /\ pc = "idle"
    /\ Accepts(geojsonSource, f)
    /\ geojsonSource' = geojsonSource \cup {f}
    /\ IF listening
       THEN /\ geojsonFeatures' = MapPut(geojsonFeatures, IdFor(f), f)
            /\ featureId' = [featureId EXCEPT ![f] = IdFor(f)]
            /\ lastEvent' = [type |-> "addfeature", feature |-> f, id |-> featureId[f],
                             known |-> IdFor(f) \in MapKeys(geojsonFeatures)]
       ELSE UNCHANGED <<geojsonFeatures, featureId, lastEvent>>
    /\ lastQuery' = NoQuery
    /\ UNCHANGED <<markersSource, markerFeatures, listening, colorerVars, applyVars, historyVars, mapVars>>

\* markersSource.addFeature(f), and the 'addfeature' listener of lines 98-103
AddMarker(f) ==
    /\ pc = "idle"
    /\ Accepts(markersSource, f)
    /\ markersSource' = markersSource \cup {f}
    /\ IF listening
       THEN /\ markerFeatures' = MapPut(markerFeatures, IdFor(f), f)
            /\ featureId' = [featureId EXCEPT ![f] = IdFor(f)]
            /\ lastEvent' = [type |-> "addfeature", feature |-> f, id |-> featureId[f],
                             known |-> IdFor(f) \in MapKeys(markerFeatures)]
       ELSE UNCHANGED <<markerFeatures, featureId, lastEvent>>
    /\ lastQuery' = NoQuery
    /\ UNCHANGED <<geojsonSource, geojsonFeatures, listening, colorerVars, applyVars, historyVars, mapVars>>

\* geojsonSource.removeFeature(f), and the 'removefeature' listener of lines 88-94
RemovePolygon(f) ==
    /\ pc = "idle"
    /\ f \in geojsonSource
    /\ geojsonSource' = geojsonSource \ {f}
    /\ IF listening
       THEN /\ geojsonFeatures' = OnRemoveFeature(geojsonFeatures, featureId[f], f)
            /\ lastEvent' = [type |-> "removefeature", feature |-> f, id |-> featureId[f],
                             known |-> featureId[f] \in MapKeys(geojsonFeatures)]
       ELSE UNCHANGED <<geojsonFeatures, lastEvent>>
    /\ lastQuery' = NoQuery
    /\ UNCHANGED <<markersSource, markerFeatures, featureId, listening,
                   colorerVars, applyVars, historyVars, mapVars>>

\* markersSource.removeFeature(f), and the 'removefeature' listener of lines 105-111
RemoveMarker(f) ==
    /\ pc = "idle"
    /\ f \in markersSource
    /\ markersSource' = markersSource \ {f}
    /\ IF listening
       THEN /\ markerFeatures' = OnRemoveFeature(markerFeatures, featureId[f], f)
            /\ lastEvent' = [type |-> "removefeature", feature |-> f, id |-> featureId[f],
                             known |-> featureId[f] \in MapKeys(markerFeatures)]
       ELSE UNCHANGED <<markerFeatures, lastEvent>>
    /\ lastQuery' = NoQuery
    /\ UNCHANGED <<geojsonSource, geojsonFeatures, featureId, listening,
                   colorerVars, applyVars, historyVars, mapVars>>

-----------------------------------------------------------------------------
(* The spatial queries of MapService.  What a query gives is a record: kind
   is "null", "feature" (items = <<the feature>>), "list" (items = the
   array), "number" (items = <<the number>>) or "raise" (a TypeError). *)

NullResult == [kind |-> "null", items |-> <<>>]
FeatureResult(f) == [kind |-> "feature", items |-> <<f>>]
ListResult(fs) == [kind |-> "list", items |-> fs]
NumberResult(n) == [kind |-> "number", items |-> <<n>>]
TypeError == [kind |-> "raise", items |-> <<>>]

\* polygonGeometry.intersectsCoordinate(markerGeometry.getCoordinates()), for
\* every polygon the markers it is true of.  No marker of MarkerTable lies on
\* the boundary of a polygon.
IntersectsCoordinate ==
    [p \in StorePolygons |->
        {m \in MarkerIds : InPolygon(MarkerTable[m].coordinates, FeatureTable[p].coordinates)}]

\* getPolygonsContainingMarker testing the bounding extent of the polygon
\* instead of the polygon
getPolygonsContainingMarker_ByExtent(marker) ==
    ListResult(SelectSeq(MapValues(geojsonFeatures),
                         LAMBDA p : InExtent(MarkerTable[marker].coordinates, GetExtent(p))))

\* getMarkersWithinPolygon(polygon), lines 154-160
getMarkersWithinPolygon(polygon) ==
    ListResult(SelectSeq(MapValues(markerFeatures),
                         LAMBDA m : m \in IntersectsCoordinate[polygon]))

\* getPolygonsContainingMarker(marker), lines 167-175
getPolygonsContainingMarker(marker) ==
    ListResult(SelectSeq(MapValues(geojsonFeatures),
                         LAMBDA p : marker \in IntersectsCoordinate[p]))

\* calculateDistanceBetweenMarkers(marker1, marker2), lines 183-188:
\* getCoordinates() of a Point is the plain Array [x, y], and an Array has no
\* property distanceTo, so that the call of line 187 is a call of undefined
\* and throws a TypeError, whatever the two markers are
calculateDistanceBetweenMarkers(marker1, marker2) == TypeError

\* the initial minDistance of line 210
Infinity == 0 - 3

RECURSIVE NearestLoop(_, _, _, _, _)
\* the loop of lines 212-220 from position i on
NearestLoop(marker, allMarkers, i, nearestMarker, minDistance) ==
    IF i > Len(allMarkers)
    THEN IF nearestMarker = Null THEN NullResult ELSE FeatureResult(nearestMarker)
    ELSE IF allMarkers[i] = marker
    THEN NearestLoop(marker, allMarkers, i + 1, nearestMarker, minDistance)
    ELSE LET distance == calculateDistanceBetweenMarkers(marker, allMarkers[i])
         IN  IF distance.kind = "raise" THEN distance
             ELSE IF minDistance = Infinity \/ distance.items[1] < minDistance
             THEN NearestLoop(marker, allMarkers, i + 1, allMarkers[i], distance.items[1])
             ELSE NearestLoop(marker, allMarkers, i + 1, nearestMarker, minDistance)

\* findNearestMarker(marker), lines 205-223
findNearestMarker(marker) ==
    IF Len(MapValues(markerFeatures)) <= 1 THEN NullResult
    ELSE NearestLoop(marker, MapValues(markerFeatures), 1, Null, Infinity)

RECURSIVE WithinLoop(_, _, _, _, _)
\* the loop of lines 235-242 from position i on
WithinLoop(marker, distance, allMarkers, i, result_) ==
    IF i > Len(allMarkers) THEN ListResult(result_)
    ELSE IF allMarkers[i] = marker
    THEN WithinLoop(marker, distance, allMarkers, i + 1, result_)
    ELSE LET actualDistance == calculateDistanceBetweenMarkers(marker, allMarkers[i])
         IN  IF actualDistance.kind = "raise" THEN actualDistance
             ELSE IF actualDistance.items[1] <= distance
             THEN WithinLoop(marker, distance, allMarkers, i + 1,
                             Append(result_, allMarkers[i]))
             ELSE WithinLoop(marker, distance, allMarkers, i + 1, result_)

\* findMarkersWithinDistance(marker, distance), lines 231-245
findMarkersWithinDistance(marker, distance) ==
    WithinLoop(marker, distance, MapValues(markerFeatures), 1, <<>>)

\* the radii the queries are made with: 2 is the distance from marker 21 to
\* the markers 22, 23 and 24
Radii == {0, 2, 3}

\* twice the signed area of a ring, by the shoelace formula
RECURSIVE Shoelace(_, _)
Shoelace(ring, i) ==
    IF i >= Len(ring) THEN 0
    ELSE ring[i][1] * ring[i + 1][2] - ring[i + 1][1] * ring[i][2] + Shoelace(ring, i + 1)

Abs(n) == IF n < 0 THEN 0 - n ELSE n

\* calculatePolygonArea(polygon), lines 195-198: geometry.getArea() of a
\* polygon of one ring
calculatePolygonArea(polygon) ==
    NumberResult(Abs(Shoelace(FeatureTable[polygon].coordinates[1], 1)) \div 2)

\* getAllGeoJSONFeatures / getAllMarkerFeatures handing out the collection the
\* store itself keeps, instead of a copy
GetAll_Live(m) == [kind |-> "list", items |-> MapValues(m), live |-> TRUE]

\* lines 120 and 128: Array.from(map.values()), a new array at every call
GetAll(m) == [kind |-> "list", items |-> MapValues(m), live |-> FALSE]

getAllGeoJSONFeatures == GetAll(geojsonFeatures)
getAllMarkerFeatures == GetAll(markerFeatures)

\* a query is made and what it gives is recorded; the queries read the store
\* and change nothing, so that only the first query after a change of the
\* store is recorded.  live: what was handed out is the collection of the
\* store itself.
Record(op, arg, other, radius, id, res) ==
    /\ pc = "idle"
    /\ lastQuery = NoQuery
    /\ lastQuery' = [op |-> op, arg |-> arg, other |-> other, radius |-> radius,
                     id |-> id, kind |-> res.kind, items |-> res.items,
                     live |-> IF "live" \in DOMAIN res THEN res.live ELSE FALSE]
    /\ UNCHANGED <<geojsonSource, markersSource, geojsonFeatures, markerFeatures,
                   featureId, listening, lastEvent, colorerVars, applyVars, historyVars, mapVars>>

Answer(op, arg, other, radius, res) == Record(op, arg, other, radius, "", res)

\* what getById gives, as a result
ById(f) == IF f = Null THEN NullResult ELSE FeatureResult(f)

\* the ids the accessors are asked for: the derived id of marker 21, the one
\* that markers 22 and 23 share, two supplied ids and an id no feature has
QueryIds == {generateFeatureId(21), generateFeatureId(22), "base", "zoneN", "nosuch"}

QueryGetAll ==
    \/ Answer("getAllGeoJSONFeatures", Null, Null, 0, getAllGeoJSONFeatures)
    \/ Answer("getAllMarkerFeatures", Null, Null, 0, getAllMarkerFeatures)

QueryGetById ==
    \E id \in QueryIds :
        \/ Record("getGeoJSONFeatureById", Null, Null, 0, id, ById(getGeoJSONFeatureById(id)))
        \/ Record("getMarkerFeatureById", Null, Null, 0, id, ById(getMarkerFeatureById(id)))

QueryArea ==
    \E p \in StorePolygons :
        Answer("calculatePolygonArea", p, Null, 0, calculatePolygonArea(p))

\* the caller changes the array that getAllGeoJSONFeatures or
\* getAllMarkerFeatures gave it: it removes the last element (Array.pop).  The
\* store changes with it only if the array is the collection of the store.
ModifyReturned ==
    /\ pc = "idle"
    /\ lastQuery.op \in {"getAllGeoJSONFeatures", "getAllMarkerFeatures"}
    /\ lastQuery.items # <<>>
    /\ lastQuery' = [lastQuery EXCEPT !.items = SubSeq(@, 1, Len(@) - 1)]
    /\ IF lastQuery.live /\ lastQuery.op = "getAllGeoJSONFeatures"
       THEN geojsonFeatures' = SubSeq(geojsonFeatures, 1, Len(geojsonFeatures) - 1)
       ELSE UNCHANGED geojsonFeatures
    /\ IF lastQuery.live /\ lastQuery.op = "getAllMarkerFeatures"
       THEN markerFeatures' = SubSeq(markerFeatures, 1, Len(markerFeatures) - 1)
       ELSE UNCHANGED markerFeatures
    /\ UNCHANGED <<geojsonSource, markersSource, featureId, listening, lastEvent,
                   colorerVars, applyVars, historyVars, mapVars>>

QueryMarkersWithinPolygon ==
    \E p \in StorePolygons :
        Answer("getMarkersWithinPolygon", p, Null, 0, getMarkersWithinPolygon(p))

QueryPolygonsContainingMarker ==
    \E m \in MarkerIds :
        Answer("getPolygonsContainingMarker", m, Null, 0, getPolygonsContainingMarker(m))

QueryDistance ==
    \E m1, m2 \in MarkerIds :
        Answer("calculateDistanceBetweenMarkers", m1, m2, 0,
               calculateDistanceBetweenMarkers(m1, m2))

QueryNearestMarker ==
    \E m \in MarkerIds : Answer("findNearestMarker", m, Null, 0, findNearestMarker(m))

QueryMarkersWithinDistance ==
    \E m \in MarkerIds, r \in Radii :
        Answer("findMarkersWithinDistance", m, Null, r, findMarkersWithinDistance(m, r))

-----------------------------------------------------------------------------
(* The main specification: calls with features and file contents drawn from
   small sets *)

\* the cluster rectangles in ascending order, the first n of them
ClusterSeq(n) == [k \in 1..n |-> ClusterFeature(k)]

FeatureInputs ==
    {s \in SeqsUpTo(SmallFeatures, MaxFeatures) : NoRepeat(s)}
        \cup {ClusterSeq(ClusterSize), ClusterSeq(ClusterSize - 1)}

\* the file lists ["a"], ["b"] and ["a", "b"]: a changed content and a changed
\* count, each way round
FileInputs == {<< <<97>> >>, << <<98>> >>, << <<97>>, <<98>> >>}

Init ==
    /\ timestamp = NoTimestamp
    /\ polygonColors = EmptyMap
    /\ fileHashes = EmptyMap
    /\ features = <<>>
    /\ geojsonFiles = <<>>
    /\ pc = "idle"
    /\ idx = 1
    /\ valid = FALSE
    /\ result = EmptyMap
    /\ repeat = FALSE
    /\ log = <<>>
    /\ randomKeys = {}
    /\ applying = FALSE
    /\ raised = FALSE
    /\ fillColor = [f \in PolygonFeatures |-> ""]
    /\ defaulted = {}
    /\ geojsonSource = {}
    /\ markersSource = {}
    /\ geojsonFeatures = <<>>
    /\ markerFeatures = <<>>
    /\ featureId = [f \in StorePolygons \cup MarkerIds |->
                        IF f \in MarkerIds THEN MarkerTable[f].id ELSE FeatureTable[f].id]
    /\ listening = FALSE
    /\ lastEvent = NoEvent
    /\ lastQuery = NoQuery
    /\ prevFiles = <<>>
    /\ rebuilt = EmptyMap
    /\ mounted = 0
    /\ geojsonLoad = <<>>
    /\ csvLoad = <<>>
    /\ oldSources = <<>>
    /\ running = 0

Call ==
    /\ \E fs \in FeatureInputs, files \in FileInputs : Enter(fs, files)
    /\ applying' = FALSE
    /\ UNCHANGED <<historyVars, mapVars>>

Next == Call \/ ColorStep \/ Return

Spec == Init /\ [][Next]_vars

-----------------------------------------------------------------------------
(* The fingerprint specification: the first call gets any content over a
   small alphabet, every later call gets the file list of the call before it,
   either unchanged or with one code unit replaced *)

\* "a" and the largest code unit
HashAlphabet == {97, 65535}
HashContents == SeqsUpTo(HashAlphabet, MaxStrLen) \ {<<>>}
HashFeatureInputs == {<<1, 2>>, <<2>>}

\* files with code unit k of entry i replaced by ch
ReplaceChar(files, i, k, ch) == [files EXCEPT ![i] = [@ EXCEPT ![k] = ch]]

CallFirst ==
    /\ timestamp = NoTimestamp
    /\ \E fs \in HashFeatureInputs, c \in HashContents :
          \/ Enter(fs, <<c>>)
          \/ Enter(fs, << <<97>>, c >>)
    /\ applying' = FALSE
    /\ UNCHANGED <<historyVars, mapVars>>

CallAltered ==
    /\ timestamp # NoTimestamp
    /\ \E i \in 1..Len(geojsonFiles) :
          \E k \in 1..Len(geojsonFiles[i]), ch \in HashAlphabet :
              /\ ch # geojsonFiles[i][k]
              /\ Enter(features, ReplaceChar(geojsonFiles, i, k, ch))
    /\ applying' = FALSE
    /\ UNCHANGED <<historyVars, mapVars>>

CallSame ==
    /\ timestamp # NoTimestamp
    /\ Enter(features, geojsonFiles)
    /\ applying' = FALSE
    /\ UNCHANGED <<historyVars, mapVars>>

NextHash == CallFirst \/ CallAltered \/ CallSame \/ ColorStep \/ Return

SpecHash == Init /\ [][NextHash]_vars

-----------------------------------------------------------------------------
(* The specification of the cache over a sequence of calls: the same polygons
   in both orders, under file lists of changing length, with the history of
   the calls *)

CacheFeatureInputs == {<<1, 2>>, <<2, 1>>, <<2>>}

\* the call before was a rebuild in which no color came from the random
\* fallback of lines 166-169
PlainRebuild ==
    /\ timestamp # NoTimestamp
    /\ ~valid
    /\ \A i \in 1..Len(log) : log[i].kind # "random"

CallTracked ==
    /\ \E fs \in CacheFeatureInputs, files \in FileInputs : Enter(fs, files)
    /\ applying' = FALSE
    /\ prevFiles' = geojsonFiles
    /\ rebuilt' = IF PlainRebuild /\ features \notin DOMAIN rebuilt
                  THEN (features :> polygonColors) @@ rebuilt
                  ELSE rebuilt
    /\ UNCHANGED mapVars

NextCache == CallTracked \/ ColorStep \/ Return

SpecCache == Init /\ [][NextCache]_vars

-----------------------------------------------------------------------------
(* The specification of applyPolygonColors: every call is made through
   applyPolygonColors, as Map.jsx does, also with a feature that has no
   geometry among the features *)

ApplyFeatureInputs ==
    {<<1, 2>>, <<1, 3>>, <<2>>,
     <<NullGeometryFeature>>, <<1, NullGeometryFeature>>, <<NullGeometryFeature, 2>>,
     ClusterSeq(ClusterSize)}

\* the file lists ["a"] and ["b"]
ApplyFileInputs == {<< <<97>> >>, << <<98>> >>}

CallApply ==
    /\ \E fs \in ApplyFeatureInputs, files \in ApplyFileInputs : Enter(fs, files)
    /\ applying' = TRUE
    /\ UNCHANGED <<historyVars, mapVars>>

NextApply == CallApply \/ ColorStep \/ ColorRaise \/ ReturnToApply \/ ApplyStep \/ ApplyReturn

SpecApply == Init /\ [][NextApply]_vars

-----------------------------------------------------------------------------
(* The specification of the feature store: features are added to and removed
   from the two vector sources, before and after MapService.initialize *)

NextStore ==
    \/ Initialize
    \/ \E f \in StorePolygons : AddPolygon(f) \/ RemovePolygon(f)
    \/ \E f \in MarkerIds : AddMarker(f) \/ RemoveMarker(f)

SpecStore == Init /\ [][NextStore]_vars

-----------------------------------------------------------------------------
(* The specification of the spatial queries: the store is filled from the two
   vector sources, before and after MapService.initialize, and queried *)

NextQuery ==
    \/ Initialize
    \/ \E f \in StorePolygons : AddPolygon(f)
    \/ \E f \in MarkerIds : AddMarker(f)
    \/ QueryMarkersWithinPolygon
    \/ QueryPolygonsContainingMarker
    \/ QueryDistance
    \/ QueryNearestMarker
    \/ QueryMarkersWithinDistance
    \/ QueryArea
    \/ QueryGetAll
    \/ QueryGetById
    \/ ModifyReturned

SpecQuery == Init /\ [][NextQuery]_vars

-----------------------------------------------------------------------------
(* The Map component.  onMount creates two vector sources, hands them to
   MapService.initialize and starts loadGeoJSONData and loadCSVData, which
   both stop at the await of their fetch; each resumes when its fetch
   settles, in either order, also after the component was mounted again.
   MapService is one instance for all mounts, and nothing ever detaches a
   listener from a source.  A feature of the tables that a later load reads
   again stands for the equal feature read before. *)

MaxMounts == 2    \* how many times the component is mounted

\* what fetchAllGeoJSON can resolve to, as the contents of line 99 and the
\* features of line 106: one file with the L and the rectangle in its notch,
\* and one with the L and a feature without geometry
Responses ==
    {[files |-> << <<97>> >>, features |-> <<1, 2>>],
     [files |-> << <<98>> >>, features |-> <<1, NullGeometryFeature>>]}

\* the features that lines 180-214 can make of the CSV text: no feature has
\* an id, and rows 22 and 23 have the same lon and lat
CsvRows == {<<21, 22>>, <<22, 23>>}

\* line 119: the geojsonFiles signal of the component is empty until its one
\* call of loadGeoJSONData sets it to the contents of the response
GeojsonFilesAfter(contents) == <<>> \o contents

\* the elements of a sequence
Range(seq) == {seq[i] : i \in 1..Len(seq)}

\* the sources of mount k
GeojsonSourceOf(k) == IF k = mounted THEN geojsonSource ELSE oldSources[k].geojson
MarkersSourceOf(k) == IF k = mounted THEN markersSource ELSE oldSources[k].markers

RECURSIVE OnAddFeatures(_, _, _, _)
\* the 'addfeature' listener of lines 81-86 and 98-103, notified of every
\* feature of fs in turn; event is the last notification handled
OnAddFeatures(fs, m, ids, event) ==
    IF fs = <<>> THEN [map |-> m, ids |-> ids, event |-> event]
    ELSE LET f == Head(fs)
             id == IF ids[f] # "" THEN ids[f] ELSE generateFeatureId(f)
         IN  OnAddFeatures(Tail(fs), MapPut(m, id, f), [ids EXCEPT ![f] = id],
                           [type |-> "addfeature", feature |-> f, id |-> ids[f],
                            known |-> id \in MapKeys(m)])

\* onMount, lines 23-66: new empty sources, MapService.initialize (which
\* clears both partitions, indexes the empty sources and attaches listeners
\* to them), then both loads run up to their await
Mount ==
    /\ pc = "idle"
    /\ running = 0
    /\ mounted < MaxMounts
    /\ mounted' = mounted + 1
    /\ oldSources' = IF mounted = 0 THEN oldSources
                     ELSE Append(oldSources, [geojson |-> geojsonSource,
                                              markers |-> markersSource])
    /\ geojsonSource' = {}
    /\ markersSource' = {}
    /\ geojsonFeatures' = <<>>
    /\ markerFeatures' = <<>>
    /\ listening' = TRUE
    /\ geojsonLoad' = Append(geojsonLoad, "fetching")
    /\ csvLoad' = Append(csvLoad, "fetching")
    /\ lastEvent' = NoEvent
    /\ lastQuery' = NoQuery
    /\ UNCHANGED <<featureId, running, colorerVars, applyVars, historyVars>>

\* loadGeoJSONData of mount k resumes with a response that has features,
\* lines 84-123: applyPolygonColors is called with all of them
GeoJSONArrives(k, r) ==
    /\ running = 0
    /\ geojsonLoad[k] = "fetching"
    /\ Enter(r.features, GeojsonFilesAfter(r.files))
    /\ applying' = TRUE
    /\ running' = k
    /\ geojsonLoad' = [geojsonLoad EXCEPT ![k] = "running"]
    /\ UNCHANGED <<mounted, csvLoad, oldSources, historyVars>>

\* loadGeoJSONData of mount k ends without features: the fetch throws (lines
\* 84, 138), or the response is no array or an empty one (lines 86-94), or
\* holds no feature (line 136)
GeoJSONFails(k) ==
    /\ pc = "idle"
    /\ running = 0
    /\ geojsonLoad[k] = "fetching"
    /\ geojsonLoad' = [geojsonLoad EXCEPT ![k] = "failed"]
    /\ UNCHANGED <<mounted, csvLoad, oldSources, running,
                   colorerVars, applyVars, storeVars, historyVars>>

\* line 138: the TypeError that ended applyPolygonColors is caught, and
\* nothing is added to the source
LoadCatch ==
    /\ pc = "idle"
    /\ running # 0
    /\ raised
    /\ geojsonLoad' = [geojsonLoad EXCEPT ![running] = "failed"]
    /\ running' = 0
    /\ UNCHANGED <<mounted, csvLoad, oldSources,
                   colorerVars, applyVars, storeVars, historyVars>>

\* what LoadAddFeatures does, given whether line 126 may run now
AddFeaturesWhen(k, ready) ==
    /\ pc = "applying"
    /\ ready
    /\ running = k
    /\ LET source == GeojsonSourceOf(k)
           accepted == SelectSeq(features, LAMBDA f : Accepts(source, f))
           after == OnAddFeatures(accepted, geojsonFeatures, featureId, lastEvent)
       IN  /\ IF k = mounted
              THEN /\ geojsonSource' = source \cup Range(accepted)
                   /\ UNCHANGED oldSources
              ELSE /\ oldSources' = [oldSources EXCEPT ![k].geojson = source \cup Range(accepted)]
                   /\ UNCHANGED geojsonSource
           /\ geojsonFeatures' = after.map
           /\ featureId' = after.ids
           /\ lastEvent' = after.event
    /\ pc' = "idle"
    /\ running' = 0
    /\ geojsonLoad' = [geojsonLoad EXCEPT ![k] = "done"]
    /\ lastQuery' = NoQuery
    /\ UNCHANGED <<timestamp, polygonColors, fileHashes, features, geojsonFiles,
                   idx, valid, result, repeat, log, randomKeys>>
    /\ UNCHANGED <<markersSource, markerFeatures, listening, mounted, csvLoad,
                   applyVars, historyVars>>

\* loadGeoJSONData adding the features to the source while the loop of
\* applyPolygonColors is still going
LoadAddFeatures_Early(k) == AddFeaturesWhen(k, TRUE)

\* lines 123-126 of mount k: applyPolygonColors has returned, and
\* addFeatures adds the features to the source of that mount, which notifies
\* the 'addfeature' listener of each
LoadAddFeatures(k) == AddFeaturesWhen(k, idx > Len(features))

\* loadCSVData of mount k resumes with rows that give features, lines
\* 148-227: addFeatures adds them to the markers source of that mount
CSVArrives(k, rows) ==
    /\ pc = "idle"
    /\ running = 0
    /\ csvLoad[k] = "fetching"
    /\ LET source == MarkersSourceOf(k)
           accepted == SelectSeq(rows, LAMBDA f : Accepts(source, f))
           after == OnAddFeatures(accepted, markerFeatures, featureId, lastEvent)
       IN  /\ IF k = mounted
              THEN /\ markersSource' = source \cup Range(accepted)
                   /\ UNCHANGED oldSources
              ELSE /\ oldSources' = [oldSources EXCEPT ![k].markers = source \cup Range(accepted)]
                   /\ UNCHANGED markersSource
           /\ markerFeatures' = after.map
           /\ featureId' = after.ids
           /\ lastEvent' = after.event
    /\ csvLoad' = [csvLoad EXCEPT ![k] = "done"]
    /\ lastQuery' = NoQuery
    /\ UNCHANGED <<geojsonSource, geojsonFeatures, listening, mounted, geojsonLoad,
                   running, colorerVars, applyVars, historyVars>>

\* loadCSVData of mount k ends without features: the fetch throws (lines
\* 148, 229), or the text has no usable row (lines 150-173, 220-223)
CSVFails(k) ==
    /\ pc = "idle"
    /\ running = 0
    /\ csvLoad[k] = "fetching"
    /\ csvLoad' = [csvLoad EXCEPT ![k] = "failed"]
    /\ UNCHANGED <<mounted, geojsonLoad, oldSources, running,
                   colorerVars, applyVars, storeVars, historyVars>>

NextMap ==
    \/ Mount
    \/ \E k \in 1..mounted, r \in Responses : GeoJSONArrives(k, r)
    \/ \E k \in 1..mounted : GeoJSONFails(k)
    \/ ColorStep
    \/ ColorRaise
    \/ ReturnToApply
    \/ ApplyStep
    \/ LoadCatch
    \/ \E k \in 1..mounted : LoadAddFeatures(k)
    \/ \E k \in 1..mounted, rows \in CsvRows : CSVArrives(k, rows)
    \/ \E k \in 1..mounted : CSVFails(k)

SpecMap == Init /\ [][NextMap]_vars

-----------------------------------------------------------------------------
(* Properties *)

Returns == pc = "coloring" /\ pc' = "idle"
Entered == pc = "idle" /\ pc' = "coloring"

\* the color written by the fallback when it drew <<0, 0, 0>>
BlackRandom == Rgba(<<0, 0, 0>>)

\* C1: a call of calculatePolygonColors that gets the arguments of the call
\* before it returns a mapping with the same keys and the same color per key,
\* also when a color of that mapping came from the random fallback.
C1_Idempotent == [][(Returns /\ repeat) => result' = result]_vars

\* a repeated call over the eleven cluster rectangles has returned, and the
\* mapping holds a color that only the fallback can produce
C1_Witness ==
    /\ pc = "idle" /\ repeat
    /\ Len(features) = ClusterSize
    /\ \E h \in DOMAIN result : result[h] = BlackRandom

\* the fingerprints stored for exactly the entries of files, by position
StoresFingerprintsOf(stored, files) ==
    /\ DOMAIN stored = {FileName(i - 1) : i \in 1..Len(files)}
    /\ \A i \in 1..Len(files) : stored[FileName(i - 1)] = generateContentHash(files[i])

\* the three reasons of the claim for which a call with `files` finds the
\* cache invalid
CountDiffers(files) == Len(files) # Cardinality(DOMAIN fileHashes)
FingerprintDiffers(files) ==
    \E i \in 1..Len(files) :
        /\ FileName(i - 1) \in DOMAIN fileHashes
        /\ fileHashes[FileName(i - 1)] # generateContentHash(files[i])
NeverBuilt == timestamp = NoTimestamp

\* C2: when calculatePolygonColors is entered with a file list whose count
\* differs from the number of stored fingerprints, or with an entry whose
\* fingerprint differs from the one stored at its position, or before the
\* cache was ever built, then every cached color is discarded and the stored
\* fingerprints become those of the file list, before any color is assigned.
C2_InvalidationDiscards ==
    [][(Entered /\ (CountDiffers(geojsonFiles') \/ FingerprintDiffers(geojsonFiles')
                        \/ NeverBuilt))
        => /\ polygonColors' = EmptyMap
           /\ StoresFingerprintsOf(fileHashes', geojsonFiles')
           /\ idx' = 1 /\ log' = <<>>]_vars

\* a call has just found the cache invalid while it held the colors that the
\* call before returned
C2_Witness ==
    /\ pc = "coloring" /\ idx = 1 /\ ~valid
    /\ result # EmptyMap /\ polygonColors = EmptyMap
    /\ StoresFingerprintsOf(fileHashes, geojsonFiles)

\* new is old with exactly one code unit of exactly one entry replaced by a
\* different one
OneCharReplaced(old, new) ==
    /\ Len(new) = Len(old)
    /\ \E i \in 1..Len(old) :
          /\ \A j \in 1..Len(old) : j # i => new[j] = old[j]
          /\ Len(new[i]) = Len(old[i])
          /\ \E k \in 1..Len(old[i]) :
                /\ new[i][k] # old[i][k]
                /\ \A l \in 1..Len(old[i]) : l # k => new[i][l] = old[i][l]

\* C3: when the file list of a call is the one of the call before it with one
\* character of one entry replaced by a different character, the fingerprint
\* of that entry differs from the stored one, the call finds the cache
\* invalid and starts from an empty color mapping.
C3_OneCharInvalidates ==
    [][(Entered /\ timestamp # NoTimestamp /\ OneCharReplaced(geojsonFiles, geojsonFiles'))
        => /\ \E i \in 1..Len(geojsonFiles) :
                 /\ geojsonFiles'[i] # geojsonFiles[i]
                 /\ generateContentHash(geojsonFiles'[i]) # generateContentHash(geojsonFiles[i])
                 /\ generateContentHash(geojsonFiles'[i]) # fileHashes[FileName(i - 1)]
           /\ ~valid'
           /\ polygonColors' = EmptyMap]_vars

\* a call after a completed one has found the cache invalid, for a content
\* whose hash has wrapped into the sign bit
C3_Witness ==
    /\ pc = "coloring" /\ ~valid /\ result # EmptyMap
    /\ \E i \in 1..Len(geojsonFiles) :
          /\ Len(geojsonFiles[i]) > 1
          /\ HashLoop(geojsonFiles[i], 1, <<0, 0>>)[1] >= Half \div 2

LogKinds == {log[i].kind : i \in 1..Len(log)}

\* C4: when a call finds the cache valid (same count and same fingerprints as
\* the call before it), every polygon of its features that the call before
\* had colored keeps that color in the returned mapping, whatever polygons
\* were removed from or added to the features, and the call has generated no
\* color for it.
C4_SurvivorsKeepColor ==
    [][(Returns /\ valid)
        => /\ \A i \in 1..Len(features) :
                 generateFeatureHash(features[i]) \in DOMAIN result
                     => result'[generateFeatureHash(features[i])]
                           = result[generateFeatureHash(features[i])]
           /\ \A i \in 1..Len(log) :
                 generateFeatureHash(log[i].feature) \in DOMAIN result
                     => log[i].kind = "cached"]_vars

\* a call on a valid cache has returned; one of its features was cached by
\* the call before, the other one is new
C4_Witness ==
    /\ pc = "idle" /\ valid /\ ~repeat
    /\ "cached" \in LogKinds /\ "palette" \in LogKinds
    /\ Len(features) = 2 /\ Cardinality(DOMAIN result) = 2

\* for every feature, the features whose bounding extent overlaps its own
\* (closed boxes)
OverlappingExtents ==
    [f \in FeatureIds |->
        {g \in FeatureIds :
            LET a == GetExtent(f)
                b == GetExtent(g)
            IN  a[1] <= b[3] /\ b[1] <= a[3] /\ a[2] <= b[4] /\ b[2] <= a[4]}]
ExtentsOverlap(f, g) == g \in OverlappingExtents[f]

\* for every feature, the features with whose bounding extent its geometry
\* shares a point
GeometryMeetsExtent ==
    [f \in FeatureIds |->
        {g \in FeatureIds : \E p \in Region[f] : InExtent(p, GetExtent(g))}]

\* the features whose geometry covers its whole bounding extent
FillingFeatures == {f \in FeatureIds : Region[f] = {p \in Grid : InExtent(p, GetExtent(f))}}
FillsExtent(f) == f \in FillingFeatures

\* the log entries of the invocations that computed a neighbour set
Computed == {i \in 1..Len(log) : log[i].kind # "cached"}
Others(f) == {features[j] : j \in 1..Len(features)} \ {f}

\* C7 as claimed: between two features of the call a neighbour set holds the
\* other feature exactly when the bounding extents overlap, and the sets
\* computed for two features agree on each other.
C7_SymmetricByExtent ==
    /\ \A i \in Computed : \A g \in Others(log[i].feature) :
          g \in log[i].neighbors <=> ExtentsOverlap(log[i].feature, g)
    /\ \A i, j \in Computed :
          log[i].feature # log[j].feature
              => (log[j].feature \in log[i].neighbors <=> log[i].feature \in log[j].neighbors)

\* C7 (amended): the neighbour set computed for A holds another feature B of
\* the call exactly when the geometry of A meets the bounding extent of B.
\* Then the two extents overlap; when the geometry of A fills its extent the
\* converse holds too, so between two such features the relation is
\* symmetric.
C7_NeighborsByGeometry ==
    /\ \A i \in Computed :
          LET others == Others(log[i].feature)
          IN  /\ log[i].neighbors = others \cap GeometryMeetsExtent[log[i].feature]
              /\ log[i].neighbors \subseteq OverlappingExtents[log[i].feature]
              /\ FillsExtent(log[i].feature)
                    => log[i].neighbors = others \cap OverlappingExtents[log[i].feature]
    /\ \A i, j \in Computed :
          (i < j /\ FillsExtent(log[i].feature) /\ FillsExtent(log[j].feature))
              => (log[j].feature \in log[i].neighbors <=> log[i].feature \in log[j].neighbors)

\* a call over the rectangle in the notch and the L has returned: the set
\* computed for the rectangle holds the L, the set computed for the L does
\* not hold the rectangle
C7_Witness ==
    /\ pc = "idle"
    /\ features = <<2, 1>>
    /\ Computed = {1, 2}
    /\ 1 \in log[1].neighbors
    /\ 2 \notin log[2].neighbors

Hashes(fs) == {generateFeatureHash(fs[i]) : i \in 1..Len(fs)}
ColorOf(f) == polygonColors[generateFeatureHash(f)]

\* C5 as claimed: at most 10 polygons with pairwise overlapping bounding
\* boxes, passed together, end with pairwise distinct colors.
C5_OverlappingDistinct ==
    (/\ pc = "idle"
     /\ Len(features) <= Len(colorPalette)
     /\ \A i, j \in 1..Len(features) : ExtentsOverlap(features[i], features[j]))
        => \A i, j \in 1..Len(features) :
              i # j => ColorOf(features[i]) # ColorOf(features[j])

\* each of the two geometries meets the bounding extent of the other
MutualNeighbors(f, g) == g \in IntersectsExtentOf[f] /\ f \in IntersectsExtentOf[g]

\* C5 (amended): at most 10 polygons with pairwise different coordinates,
\* each geometry meeting the bounding extent of every other one, passed
\* together, end with pairwise distinct colors, for every order of the
\* features and every prior cache state that holds no color of the random
\* fallback for them.
C5_MutualNeighborsDistinct ==
    (/\ pc = "idle"
     /\ Len(features) <= Len(colorPalette)
     /\ \A i, j \in 1..Len(features) :
            i # j => /\ generateFeatureHash(features[i]) # generateFeatureHash(features[j])
                     /\ MutualNeighbors(features[i], features[j])
     /\ randomKeys \cap Hashes(features) = {})
        => \A i, j \in 1..Len(features) :
              i # j => ColorOf(features[i]) # ColorOf(features[j])

\* a call over ten cluster rectangles on a valid cache has returned
C5_Witness ==
    /\ pc = "idle" /\ valid
    /\ Len(features) = Len(colorPalette)
    /\ randomKeys = {}
    /\ Cardinality({polygonColors[h] : h \in DOMAIN polygonColors}) = Len(colorPalette)

\* the features of the call, other than f, whose bounding extent overlaps the
\* one of f
ExtentNeighbors(f) == {g \in Others(f) : ExtentsOverlap(f, g)}

\* C6 as claimed: after the return, a feature that had fewer than 10 colored
\* bounding-box neighbours when it was assigned differs in color from each of
\* its bounding-box neighbours of the call.
C6_DistinctFromExtentNeighbors ==
    pc = "idle"
        => \A i \in Computed :
              Cardinality({g \in ExtentNeighbors(log[i].feature) :
                              generateFeatureHash(g) \in log[i].cachedThen}) < Len(colorPalette)
                  => \A g \in ExtentNeighbors(log[i].feature) :
                        ColorOf(g) # ColorOf(log[i].feature)

\* C6 (amended): after the return, a feature that had fewer than 10 colored
\* neighbours when it was assigned differs in color from each of those: the
\* features of the call whose bounding extent its geometry meets and that
\* held a color at that moment.
C6_DistinctFromColoredNeighbors ==
    pc = "idle"
        => \A i \in Computed :
              Cardinality(log[i].colored) < Len(colorPalette)
                  => \A g \in log[i].colored :
                        /\ generateFeatureHash(g) \in DOMAIN polygonColors
                        /\ ColorOf(g) # ColorOf(log[i].feature)
                        /\ ColorOf(log[i].feature) = log[i].color

\* a call has returned in which a feature was assigned while nine of its
\* neighbours held a color
C6_Witness ==
    /\ pc = "idle"
    /\ \E i \in Computed : Cardinality(log[i].colored) = Len(colorPalette) - 1

\* the palette colors not among the colors of the neighbours that were
\* colored when entry i was made
FreeIndexes(i) ==
    {k \in 1..Len(colorPalette) :
        \A g \in log[i].colored : colorPalette[k] # ColorOf(g)}

\* C8: a feature without a cached color, for which some palette color is not
\* the cached color of any neighbour, gets the palette color of lowest index
\* among those, and the cache stores it; with no colored neighbour that is
\* the first palette color.
C8_LowestFreePaletteColor ==
    \A i \in Computed :
        FreeIndexes(i) # {}
            => /\ log[i].color = colorPalette[Min(FreeIndexes(i))]
               /\ generateFeatureHash(log[i].feature) \in DOMAIN polygonColors
               /\ ColorOf(log[i].feature) = log[i].color
               /\ log[i].colored = {} => log[i].color = colorPalette[1]

\* a feature got the third palette color because two neighbours held the
\* first two
C8_Witness ==
    \E i \in Computed :
        /\ Cardinality(log[i].colored) = 2
        /\ log[i].color = colorPalette[3]
        /\ ColorOf(log[i].feature) = colorPalette[3]

\* C9 as claimed: a color of the random fallback is not stored in the cache
\* for its feature.
C9_RandomNotStored ==
    \A i \in 1..Len(log) :
        log[i].kind = "random"
            => generateFeatureHash(log[i].feature) \notin DOMAIN polygonColors

\* C9 (amended): a color of the random fallback is stored in the cache for
\* its feature like any other, and a call that repeats the arguments of the
\* call before it generates no color: every feature gets its color from the
\* cache, the one the call before returned.
C9_RandomStored ==
    /\ \A i \in 1..Len(log) :
          log[i].kind = "random"
              => /\ generateFeatureHash(log[i].feature) \in DOMAIN polygonColors
                 /\ ColorOf(log[i].feature) = log[i].color
    /\ repeat => \A i \in 1..Len(log) :
          /\ log[i].kind = "cached"
          /\ generateFeatureHash(log[i].feature) \in DOMAIN result
          /\ log[i].color = result[generateFeatureHash(log[i].feature)]

\* the palette ran out for the eleventh cluster rectangle, the fallback drew
\* white, and the call has returned
C9_Witness ==
    /\ pc = "idle"
    /\ \E i \in 1..Len(log) :
          /\ log[i].kind = "random"
          /\ log[i].color = Rgba(<<255, 255, 255>>)
          /\ ColorOf(log[i].feature) = log[i].color

\* the identifier the Feature Store uses for every feature
StoreIds == [f \in FeatureIds |-> FeatureStoreId(f)]

\* C10 as claimed: the returned mapping holds, for every feature of the call,
\* an entry under the identifier the Feature Store uses for that feature.
C10_KeyedByStoreId ==
    pc = "idle"
        => \A i \in 1..Len(features) : StoreIds[features[i]] \in DOMAIN result

\* the comma-joined flattened coordinates of every feature
CoordinateStrings ==
    [f \in FeatureIds |-> Join(FlatNumbers(FlatPoints(FeatureTable[f].coordinates)))]
CoordinateString(f) == CoordinateStrings[f]

\* C10 (amended): the returned mapping is keyed by the comma-joined flattened
\* coordinates of the geometry, without the type prefix and whatever id the
\* feature has: it holds one entry per distinct coordinate list of the call,
\* so features with equal coordinates share one entry even when their
\* identifiers differ, and no entry is under a Feature Store identifier.
C10_KeyedByCoordinates ==
    pc = "idle"
        => /\ DOMAIN result = {CoordinateString(features[i]) : i \in 1..Len(features)}
           /\ \A i \in 1..Len(features) : StoreIds[features[i]] \notin DOMAIN result

\* a call over the L and its twin, whose identifiers differ, has returned a
\* mapping with a single entry
C10_Witness ==
    /\ pc = "idle"
    /\ features = <<1, 3>>
    /\ FeatureStoreId(1) # FeatureStoreId(3)
    /\ Cardinality(DOMAIN result) = 1

-----------------------------------------------------------------------------
(* applyPolygonColors *)

Applied == pc = "idle" /\ applying /\ ~raised

\* C11: after applyPolygonColors(features, rawContents) has returned, every
\* feature of features has the fillColor that the mapping returned by
\* calculatePolygonColors holds for it, and the neutral default was written
\* to no feature for which the mapping holds a color.
C11_FillColorFromMapping ==
    Applied
        => /\ \A i \in 1..Len(features) :
                 /\ generateFeatureHash(features[i]) \in DOMAIN result
                 /\ fillColor[features[i]] = result[generateFeatureHash(features[i])]
           /\ \A f \in defaulted : generateFeatureHash(f) \notin DOMAIN result

\* applyPolygonColors has returned for the eleven cluster rectangles, one of
\* which carries a color of the random fallback, while the L still carries
\* the color of an earlier call
C11_Witness ==
    /\ Applied
    /\ Len(features) = ClusterSize
    /\ \E i \in 1..Len(features) : fillColor[features[i]] = BlackRandom
    /\ fillColor[1] # ""

-----------------------------------------------------------------------------
(* The feature store *)

StoreFeatures == StorePolygons \cup MarkerIds

\* the features a partition holds
Held(m) == {m[i][2] : i \in 1..Len(m)}

\* the partition m holds exactly the features of source, each retrievable
\* under the id it has
Mirrors(m, source) ==
    /\ Held(m) = source
    /\ \A f \in source : featureId[f] # "" /\ GetById(m, featureId[f]) = f

\* C12 as claimed: once the listeners are attached, after every sequence of
\* additions to and removals from a source, the partition of that source
\* holds exactly the features the source holds, each retrievable by its id.
C12_StoreMirrorsSources ==
    listening
        => /\ Mirrors(geojsonFeatures, geojsonSource)
           /\ Mirrors(markerFeatures, markersSource)

\* every id a feature of the model can have, the id no feature has, and the
\* missing id
KnownIds ==
    {generateFeatureId(f) : f \in StoreFeatures}
        \cup {MarkerTable[m].id : m \in MarkerIds}
        \cup {FeatureTable[f].id : f \in StorePolygons}
        \cup {"nosuch", ""}

\* no lookup of an absent id gives anything but null, and the listener
\* leaves a partition as it is for every feature whose id is missing or
\* absent from the partition
AbsentIdsAreHarmless ==
    /\ \A id \in KnownIds :
          /\ id \notin MapKeys(geojsonFeatures) => getGeoJSONFeatureById(id) = Null
          /\ id \notin MapKeys(markerFeatures) => getMarkerFeatureById(id) = Null
    /\ \A f \in StoreFeatures, id \in KnownIds :
          /\ (id = "" \/ id \notin MapKeys(geojsonFeatures))
                => OnRemoveFeature(geojsonFeatures, id, f) = geojsonFeatures
          /\ (id = "" \/ id \notin MapKeys(markerFeatures))
                => OnRemoveFeature(markerFeatures, id, f) = markerFeatures

\* a listener has just handled a 'removefeature' for a feature whose id is
\* not a key of its partition
RemovedUnknown ==
    /\ lastEvent' # lastEvent
    /\ lastEvent'.type = "removefeature"
    /\ ~lastEvent'.known

\* C13: getGeoJSONFeatureById and getMarkerFeatureById give null for an id
\* that is not in their partition, and a 'removefeature' notification for a
\* feature whose id is absent from the partition, or that has no id, leaves
\* both partitions unchanged.
C13_MissingIdIsHarmless ==
    /\ []AbsentIdsAreHarmless
    /\ [][RemovedUnknown
            => /\ geojsonFeatures' = geojsonFeatures
               /\ markerFeatures' = markerFeatures]_vars

\* a marker was removed whose id the partition no longer held, because the
\* entry under that id had gone with the other marker at its coordinates,
\* while both partitions hold features
C13_Witness ==
    /\ lastEvent.type = "removefeature"
    /\ ~lastEvent.known
    /\ lastEvent.id = generateFeatureId(22)
    /\ geojsonFeatures # <<>>
    /\ markerFeatures # <<>>

-----------------------------------------------------------------------------
(* The spatial queries *)

\* the square of the planar Euclidean distance between two markers
Dist2 ==
    [a \in MarkerIds, b \in MarkerIds |->
        (MarkerTable[a].coordinates[1] - MarkerTable[b].coordinates[1])
            * (MarkerTable[a].coordinates[1] - MarkerTable[b].coordinates[1])
        + (MarkerTable[a].coordinates[2] - MarkerTable[b].coordinates[2])
            * (MarkerTable[a].coordinates[2] - MarkerTable[b].coordinates[2])]

\* the features of the point partition other than marker
OtherMarkers(marker) == Held(markerFeatures) \ {marker}

\* those of them that no other one is closer to marker than
Closest(marker) ==
    {o \in OtherMarkers(marker) :
        \A o2 \in OtherMarkers(marker) : Dist2[marker, o] <= Dist2[marker, o2]}

Asked(op) == lastQuery.op = op

\* C14 as claimed: when the point partition holds at least two features,
\* findNearestMarker(marker) gives a feature of the partition other than
\* marker that no other feature of the partition is closer to marker than.
C14_NearestIsClosest ==
    (Asked("findNearestMarker") /\ Len(markerFeatures) >= 2)
        => /\ lastQuery.kind = "feature"
           /\ lastQuery.items[1] \in Closest(lastQuery.arg)

\* C15 as claimed: findNearestMarker gives null and findMarkersWithinDistance
\* an empty array, without raising, whenever the point partition holds zero
\* or one feature, whatever the query marker is.
C15_EmptyForAnyMarker ==
    Len(markerFeatures) <= 1
        => /\ Asked("findNearestMarker") => lastQuery.kind = "null"
           /\ Asked("findMarkersWithinDistance")
                => lastQuery.kind = "list" /\ lastQuery.items = <<>>

\* C16 as claimed: findMarkersWithinDistance(marker, radius) gives exactly
\* the features of the point partition other than marker whose distance to
\* marker is at most radius, in the order of the partition, each once.
C16_ExactlyWithinRadius ==
    Asked("findMarkersWithinDistance")
        => /\ lastQuery.kind = "list"
           /\ lastQuery.items =
                 SelectSeq(MapValues(markerFeatures),
                           LAMBDA o : /\ o # lastQuery.arg
                                      /\ Dist2[lastQuery.arg, o]
                                            <= lastQuery.radius * lastQuery.radius)

\* the first feature of a set in the order of the point partition
FirstInPartition(S) ==
    MapValues(markerFeatures)[Min({i \in 1..Len(markerFeatures) : markerFeatures[i][2] \in S})]

\* C17 as claimed: when several features other than marker are at the same
\* minimal distance from marker, findNearestMarker gives the one of them
\* that comes first in the order of the point partition.
C17_TieGoesToFirst ==
    (Asked("findNearestMarker") /\ Cardinality(Closest(lastQuery.arg)) >= 2)
        => /\ lastQuery.kind = "feature"
           /\ lastQuery.items[1] = FirstInPartition(Closest(lastQuery.arg))

InSeq(x, seq) == \E i \in 1..Len(seq) : seq[i] = x

\* C18: for every polygon p of the polygon partition and every marker m of
\* the point partition, m is among getMarkersWithinPolygon(p) exactly when p
\* is among getPolygonsContainingMarker(m).
C18_ContainmentQueriesInverse ==
    \A p \in Held(geojsonFeatures), m \in Held(markerFeatures) :
        InSeq(m, getMarkersWithinPolygon(p).items)
            <=> InSeq(p, getPolygonsContainingMarker(m).items)

\* getMarkersWithinPolygon has given the marker inside the rectangle, and
\* not the other markers of the point partition, while the polygon partition
\* also holds the L, whose bounding extent that marker lies in
C18_Witness ==
    /\ Asked("getMarkersWithinPolygon")
    /\ lastQuery.arg = 2
    /\ lastQuery.items = <<21>>
    /\ Len(markerFeatures) >= 2
    /\ Held(geojsonFeatures) = {1, 2}
    /\ getPolygonsContainingMarker(21).items = <<2>>

\* C19 as claimed: calculatePolygonColors and applyPolygonColors do not raise
\* when a feature of their list has no geometry: they give it the first
\* color of the palette, as a feature without neighbours.
C19_MissingGeometryGetsFirstColor ==
    (pc = "idle" /\ \E i \in 1..Len(features) : features[i] = NullGeometryFeature)
        => /\ ~raised
           /\ fillColor[NullGeometryFeature] = colorPalette[1]

\* C20 as claimed: calculateDistanceBetweenMarkers(a, b) gives a number, the
\* planar Euclidean distance between the coordinates of a and b, which is 0
\* for equal coordinates.
C20_EuclideanDistance ==
    Asked("calculateDistanceBetweenMarkers")
        => /\ lastQuery.kind = "number"
           /\ lastQuery.items[1] >= 0
           /\ lastQuery.items[1] * lastQuery.items[1] = Dist2[lastQuery.arg, lastQuery.other]

\* a query or an accessor has just returned, or the caller has just changed
\* an array that getAllGeoJSONFeatures or getAllMarkerFeatures gave it
Queried == lastQuery' # lastQuery /\ lastQuery'.op # "none"

\* C21: no query operation and no accessor changes a partition of the
\* feature store or the color cache, and changing an array that
\* getAllGeoJSONFeatures or getAllMarkerFeatures returned changes neither.
C21_QueriesChangeNothing ==
    [][Queried
        => /\ geojsonFeatures' = geojsonFeatures
           /\ markerFeatures' = markerFeatures
           /\ featureId' = featureId
           /\ <<timestamp, polygonColors, fileHashes>>' = <<timestamp, polygonColors, fileHashes>>]_vars

\* the caller has emptied the array that getAllMarkerFeatures gave it while
\* the point partition holds two markers
C21_Witness ==
    /\ Asked("getAllMarkerFeatures")
    /\ lastQuery.items = <<>>
    /\ Len(markerFeatures) = 2
    /\ polygonColors = EmptyMap

\* the loop of lines 195-197 is over, or the call has returned
LoopDone == pc = "coloring" /\ idx > Len(features)
Completed == LoopDone \/ (pc = "idle" /\ timestamp # NoTimestamp /\ ~raised)

\* C22: after every call of calculatePolygonColors, on a hit as on a rebuild
\* and whatever calls came before, the keys of the cached mapping are exactly
\* the hashes of the features of that call.
C22_KeysAreThoseOfTheCall ==
    Completed => DOMAIN polygonColors =
                    {generateFeatureHash(features[i]) : i \in 1..Len(features)}

\* a call that found the cache valid ends, having dropped an entry of the
\* mapping the call before returned and added one that mapping did not have
C22_Witness ==
    /\ LoopDone
    /\ valid
    /\ \E h \in DOMAIN result : h \notin DOMAIN polygonColors
    /\ \E h \in DOMAIN polygonColors : h \notin DOMAIN result

\* C24: a call that finds the cache valid leaves the timestamp and the
\* fingerprints as they were; a call that finds it invalid sets the timestamp;
\* a timestamp once set is never reset to the unbuilt state.
C24_TimestampMarksRebuild ==
    [][/\ (Entered /\ valid') => <<timestamp, fileHashes>>' = <<timestamp, fileHashes>>
       /\ (Entered /\ ~valid') => timestamp' # NoTimestamp
       /\ timestamp # NoTimestamp => timestamp' # NoTimestamp]_vars

\* a hit is in progress on a cache built at an earlier reading of the clock
\* than the latest possible one
C24_Witness ==
    /\ pc = "coloring"
    /\ valid
    /\ timestamp # NoTimestamp
    /\ timestamp < MaxClock

\* C23: after every call of calculatePolygonColors the fingerprint table has
\* one entry per file of that call, file_0 to file_(n-1), each the
\* fingerprint of that file, and nothing else: no fingerprint of an earlier,
\* longer file list survives.
C23_FingerprintsAreThoseOfTheCall ==
    timestamp # NoTimestamp =>
        /\ DOMAIN fileHashes = {FileName(i) : i \in 0..(Len(geojsonFiles) - 1)}
        /\ \A i \in 0..(Len(geojsonFiles) - 1) :
              fileHashes[FileName(i)] = generateContentHash(geojsonFiles[i + 1])

\* a call with one file has returned after a call with two files
C23_Witness ==
    /\ pc = "idle"
    /\ timestamp # NoTimestamp
    /\ Len(prevFiles) = 2
    /\ Len(geojsonFiles) = 1

\* C25: starting from an invalidated mapping, two runs over the same features
\* in the same order, in which no color comes from the random fallback, give
\* every feature the same color; runs over the same features in another
\* order may give other colors (the witness).
C25_SameOrderSameColors ==
    (pc = "idle" /\ PlainRebuild /\ features \in DOMAIN rebuilt)
        => polygonColors = rebuilt[features]

\* a second rebuild of the list <<2, 1>> has returned, and the rebuild of
\* <<1, 2>> gave polygon 2 another color than the rebuild of <<2, 1>>
C25_Witness ==
    /\ pc = "idle"
    /\ PlainRebuild
    /\ features = <<2, 1>>
    /\ {<<1, 2>>, <<2, 1>>} \subseteq DOMAIN rebuilt
    /\ polygonColors = rebuilt[<<2, 1>>]
    /\ rebuilt[<<1, 2>>][generateFeatureHash(2)] # rebuilt[<<2, 1>>][generateFeatureHash(2)]

-----------------------------------------------------------------------------
(* The Map component *)

\* the polygons in a polygon source of any mount
LoadedPolygons ==
    geojsonSource \cup UNION {oldSources[k].geojson : k \in 1..Len(oldSources)}

\* C26: loadGeoJSONData runs applyPolygonColors over the whole batch before
\* it adds the batch to the polygon source, so that at every 'addfeature'
\* notification for a polygon, and whenever a polygon is in a source or in
\* the feature store, the polygon carries a fillColor.
C26_ColoredBeforeAdded ==
    /\ \A f \in LoadedPolygons \cup Held(geojsonFeatures) : fillColor[f] # ""
    /\ (lastEvent.type = "addfeature" /\ lastEvent.feature \in StorePolygons)
          => fillColor[lastEvent.feature] # ""

\* the load of the first mount has added the L and the rectangle, and the
\* listener has stored both
C26_Witness ==
    /\ mounted = 1
    /\ geojsonLoad[1] = "done"
    /\ geojsonSource = {1, 2}
    /\ Held(geojsonFeatures) = {1, 2}
    /\ lastEvent.type = "addfeature"
    /\ lastEvent.feature = 2

\* both loads of mount k have ended
LoadsEnded(k) ==
    /\ geojsonLoad[k] \in {"done", "failed"}
    /\ csvLoad[k] \in {"done", "failed"}

\* C27 as claimed: the listeners are attached before a load of the mount
\* starts, and in whichever order the two loads of a mount end, one of them
\* failing or not, once both have ended the polygon partition holds exactly
\* the polygons added to the polygon source and the point partition exactly
\* the markers added to the markers source, and neither holds a feature of
\* the other.
C27_LoadsFillPartitions ==
    /\ mounted >= 1 => listening
    /\ (mounted = 1 /\ LoadsEnded(1))
          => /\ Held(geojsonFeatures) = geojsonSource
             /\ Held(markerFeatures) = markersSource
             /\ Held(geojsonFeatures) \cap MarkerIds = {}
             /\ Held(markerFeatures) \cap StorePolygons = {}

\* C28 as claimed: after initialize was called again with new sources, the
\* partitions hold features of the latest sources only, whatever the
\* sources of an earlier initialize are notified of.
C28_OnlyLatestSources ==
    mounted >= 1
        => /\ Held(geojsonFeatures) \subseteq geojsonSource
           /\ Held(markerFeatures) \subseteq markersSource

====
